---- MODULE Spec2Model ----
(***************************************************************************)
(* Model of the dark I-V extraction program: DataLoader.preprocess         *)
(* (src/src/io_handler.py), DarkIVAnalyzer (src/src/physics.py) and the    *)
(* per-file loop of main (src/main.py).                                    *)
(*                                                                         *)
(* Numbers.  Voltages are integers in units of 0.025 V, currents and       *)
(* current densities are integers in units of 1e-12 A (per cm^2).  A cell  *)
(* of a table is a record [ok, val]: ok = FALSE is a cell that             *)
(* pd.to_numeric(errors='coerce') turns into NaN.                          *)
(* Names.  A column name is a sequence of one-character strings, so that   *)
(* strip(), lower(), == and the substring test `in` are computed.          *)
(***************************************************************************)
EXTENDS Integers, Sequences, FiniteSets, TLC

VARIABLES
    table,      \* the DataFrame handed to DataLoader.preprocess
    area,       \* the area argument of preprocess
    pre1,       \* outcome of preprocess(table), or NotRun
    pre2,       \* outcome of preprocess on the Curve pre1 returned, or NotRun
    analyzer,   \* a DarkIVAnalyzer: its DataFrame, results and pending exception
    calls,      \* the methods called on analyzer, in order
    files,      \* main: the files found in the data directory
    pos,        \* main: the number of files the loop has started on
    pc,         \* main: the statement to run next
    results_list,   \* main: the ParameterRecords appended so far
    attempts,   \* main: the files the loop body was entered for, in order
    errors      \* main: the files whose processing ended in the except clause

preVars == <<table, area, pre1, pre2>>
anVars == <<analyzer, calls>>
mainVars == <<files, pos, pc, results_list, attempts, errors>>
vars == <<table, area, pre1, pre2, analyzer, calls,
          files, pos, pc, results_list, attempts, errors>>

(***************************************************************************)
(* Bounds of the model.                                                    *)
(***************************************************************************)
MaxRows == 3
MaxCols == 3
MaxLen == 4
MaxFiles == 2

(***************************************************************************)
(* config.py                                                               *)
(***************************************************************************)
DEFAULT_AREA == 1

VOLTAGE_COLUMN_NAMES ==
    << <<"V">>,
       <<"V","o","l","t","a","g","e">>,
       <<"V","o","l","t","a","g","e"," ","(","V",")">>,
       <<"U">> >>

CURRENT_COLUMN_NAMES ==
    << <<"I">>,
       <<"C","u","r","r","e","n","t">>,
       <<"C","u","r","r","e","n","t"," ","(","A",")">>,
       <<"J">>,
       <<"C","u","r","r","e","n","t"," ","D","e","n","s","i","t","y">> >>

\* 0.5 V, the window of the zero-offset correction, in units of 0.025 V
ZeroOffsetWindow == 20

(***************************************************************************)
(* Strings                                                                 *)
(***************************************************************************)
LowerChar(c) ==
    CASE c = "A" -> "a" [] c = "B" -> "b" [] c = "C" -> "c" [] c = "D" -> "d"
      [] c = "I" -> "i" [] c = "J" -> "j" [] c = "L" -> "l" [] c = "S" -> "s"
      [] c = "T" -> "t" [] c = "U" -> "u" [] c = "V" -> "v" [] c = "X" -> "x"
      [] c = "Y" -> "y"
      [] OTHER -> c

Lower(s) == [k \in 1..Len(s) |-> LowerChar(s[k])]

RECURSIVE LStrip(_)
LStrip(s) == IF s # <<>> /\ Head(s) = " " THEN LStrip(Tail(s)) ELSE s

RECURSIVE RStrip(_)
RStrip(s) ==
    IF s # <<>> /\ s[Len(s)] = " " THEN RStrip(SubSeq(s, 1, Len(s) - 1)) ELSE s

Strip(s) == RStrip(LStrip(s))

\* Python's `a in b` for strings
IsSubstring(a, b) ==
    \E k \in 0..(Len(b) - Len(a)) : SubSeq(b, k + 1, k + Len(a)) = a

ExactMatch(col, names) ==
    \E k \in 1..Len(names) : Lower(names[k]) = Lower(col)

PartialMatch(col, names) ==
    \E k \in 1..Len(names) : IsSubstring(Lower(names[k]), Lower(col))

(***************************************************************************)
(* Column recognition                                                      *)
(***************************************************************************)
\* Python's None for v_col / i_col (no column name is this sequence)
NoneCol == <<"None">>

IdentifyStepV(col, v) ==
    IF ExactMatch(col, VOLTAGE_COLUMN_NAMES) THEN col
    ELSE IF PartialMatch(col, VOLTAGE_COLUMN_NAMES) /\ v = NoneCol THEN col
    ELSE v

IdentifyStepI(col, i) ==
    IF ExactMatch(col, CURRENT_COLUMN_NAMES) THEN col
    ELSE IF PartialMatch(col, CURRENT_COLUMN_NAMES) /\ i = NoneCol THEN col
    ELSE i

RECURSIVE IdentifyLoop(_, _, _, _)
IdentifyLoop(cols, k, v, i) ==
    IF k > Len(cols) THEN [v |-> v, i |-> i]
    ELSE IdentifyLoop(cols, k + 1, IdentifyStepV(cols[k], v), IdentifyStepI(cols[k], i))

\* the value of (v_col, i_col) when the renaming is reached, or the error
IdentifyColumns(cols) ==
    LET m == IdentifyLoop(cols, 1, NoneCol, NoneCol) IN
    IF m.v = NoneCol \/ m.i = NoneCol
    THEN IF Len(cols) = 2
         THEN [ok |-> TRUE, v |-> cols[1], i |-> cols[2]]
         ELSE [ok |-> FALSE, v |-> m.v, i |-> m.i]
    ELSE [ok |-> TRUE, v |-> m.v, i |-> m.i]

NameV == <<"V">>
NameI == <<"I">>
NameJ == <<"J">>

\* df.rename(columns={v_col: 'V', i_col: 'I'}): in the dict literal a repeated
\* key keeps its last value
RenameColumns(cols, v, i) ==
    [k \in 1..Len(cols) |->
        IF cols[k] = i THEN NameI ELSE IF cols[k] = v THEN NameV ELSE cols[k]]

CountName(cols, name) == Cardinality({k \in 1..Len(cols) : cols[k] = name})

ColIndex(cols, name) == CHOOSE k \in 1..Len(cols) : cols[k] = name

(***************************************************************************)
(* Numeric steps of preprocess                                             *)
(***************************************************************************)
Num(n) == [ok |-> TRUE, val |-> n]
NaNCell == [ok |-> FALSE, val |-> 0]

Abs(x) == IF x < 0 THEN -x ELSE x

\* the positions where a boolean mask holds, in order
RECURSIVE PositionsFrom(_, _)
PositionsFrom(mask, a) ==
    IF a > Len(mask) THEN <<>>
    ELSE IF mask[a] THEN <<a>> \o PositionsFrom(mask, a + 1)
    ELSE PositionsFrom(mask, a + 1)

Positions(mask) == PositionsFrom(mask, 1)

Pick(f, idx) == [j \in 1..Len(idx) |-> f[idx[j]]]

\* df.dropna(subset=['V', 'I'])
DropNa(rows, kv, ki) ==
    Pick(rows, Positions([a \in 1..Len(rows) |-> rows[a][kv].ok /\ rows[a][ki].ok]))

\* the orders of the rows in todo that sort_values('V') can give
RECURSIVE SortingPermsOf(_, _, _)
SortingPermsOf(rows, kv, todo) ==
    IF todo = {} THEN {<<>>}
    ELSE UNION { { <<a>> \o p : p \in SortingPermsOf(rows, kv, todo \ {a}) } :
                 a \in {c \in todo : \A b \in todo : rows[c][kv].val <= rows[b][kv].val} }

\* df.sort_values('V'): the default sort is not stable, rows of equal V may
\* come out in any order
SortingPerms(rows, kv) == SortingPermsOf(rows, kv, 1..Len(rows))

Permute(rows, p) == [k \in 1..Len(rows) |-> rows[p[k]]]

\* Series.abs().idxmin(): the first position of the minimum
IdxMinAbs(rows, k) ==
    CHOOSE a \in 1..Len(rows) :
        /\ \A b \in 1..Len(rows) : Abs(rows[a][k].val) <= Abs(rows[b][k].val)
        /\ \A b \in 1..(a - 1) : Abs(rows[b][k].val) > Abs(rows[a][k].val)

\* Series.abs().idxmax(): the first position of the maximum
IdxMaxAbs(rows, k) ==
    CHOOSE a \in 1..Len(rows) :
        /\ \A b \in 1..Len(rows) : Abs(rows[a][k].val) >= Abs(rows[b][k].val)
        /\ \A b \in 1..(a - 1) : Abs(rows[b][k].val) < Abs(rows[a][k].val)

OffsetApplies(rows, kv) == Abs(rows[IdxMinAbs(rows, kv)][kv].val) < ZeroOffsetWindow

\* a zero-offset correction that takes the offset from the first row
ZeroOffset_FirstRow(rows, kv, ki) ==
    IF OffsetApplies(rows, kv)
    THEN LET off == rows[1][ki].val IN
         [a \in 1..Len(rows) |-> [rows[a] EXCEPT ![ki] = Num(rows[a][ki].val - off)]]
    ELSE rows

ZeroOffset(rows, kv, ki) ==
    IF OffsetApplies(rows, kv)
    THEN LET off == rows[IdxMinAbs(rows, kv)][ki].val IN
         [a \in 1..Len(rows) |-> [rows[a] EXCEPT ![ki] = Num(rows[a][ki].val - off)]]
    ELSE rows

\* a polarity heuristic without the second-quadrant branch
PolarityCase_NoSecondQuadrant(max_v, max_i) ==
    IF max_v < 0 /\ max_i < 0 THEN "both"
    ELSE IF max_v > 0 /\ max_i < 0 THEN "I"
    ELSE "none"

\* which of the three sign flips the polarity heuristic applies
PolarityCase(max_v, max_i) ==
    IF max_v < 0 /\ max_i < 0 THEN "both"
    ELSE IF max_v < 0 /\ max_i > 0 THEN "V"
    ELSE IF max_v > 0 /\ max_i < 0 THEN "I"
    ELSE "none"

Polarity(rows, kv, ki) ==
    LET m  == IdxMaxAbs(rows, ki)
        flip == PolarityCase(rows[m][kv].val, rows[m][ki].val)
        fv == flip \in {"both", "V"}
        fi == flip \in {"both", "I"}
    IN  [a \in 1..Len(rows) |->
            [rows[a] EXCEPT ![kv] = Num(IF fv THEN -rows[a][kv].val ELSE rows[a][kv].val),
                            ![ki] = Num(IF fi THEN -rows[a][ki].val ELSE rows[a][ki].val)]]

\* I / area for area > 0, else I; the model's areas are 0 and 1
AreaNormalize(i, ar) == IF ar > 0 THEN i \div ar ELSE i

\* df['J'] = ...: a new last column, or every column already named J
SetJ(cols, rows, ki, ar) ==
    IF CountName(cols, NameJ) = 0
    THEN [cols |-> Append(cols, NameJ),
          rows |-> [a \in 1..Len(rows) |->
                        Append(rows[a], Num(AreaNormalize(rows[a][ki].val, ar)))]]
    ELSE [cols |-> cols,
          rows |-> [a \in 1..Len(rows) |->
                        [c \in 1..Len(cols) |->
                            IF cols[c] = NameJ
                            THEN Num(AreaNormalize(rows[a][ki].val, ar))
                            ELSE rows[a][c]]]]

NoFrame == [cols |-> <<>>, rows |-> <<>>]

\* an exception out of preprocess; found is the list of columns the
\* identification error names
Failure(kind, cols, id) ==
    [status |-> kind, found |-> cols, v_col |-> id.v, i_col |-> id.i,
     df |-> NoFrame, kv |-> 0, ki |-> 0, sorted |-> <<>>, p1 |-> <<>>,
     idx_zero |-> 0, shifted |-> <<>>, max_idx |-> 0, flipped |-> <<>>, p2 |-> <<>>]

(***************************************************************************)
(* DataLoader.preprocess(df, area) with the two sorts resolved by the      *)
(* permutations p1 and p2.  The outcome records the returned DataFrame     *)
(* (status "ok") or the exception raised, and the intermediate tables.     *)
(***************************************************************************)
Preprocess(df, ar, p1, p2) ==
    LET cols == [k \in 1..Len(df.cols) |-> Strip(df.cols[k])]
        id   == IdentifyColumns(cols)
        ren  == RenameColumns(cols, id.v, id.i)
    IN
    IF ~id.ok THEN Failure("ValueError", cols, id)
    ELSE IF CountName(ren, NameV) = 0 THEN Failure("KeyError", <<>>, id)
    ELSE IF CountName(ren, NameV) > 1 THEN Failure("TypeError", <<>>, id)
    ELSE IF CountName(ren, NameI) = 0 THEN Failure("KeyError", <<>>, id)
    ELSE IF CountName(ren, NameI) > 1 THEN Failure("TypeError", <<>>, id)
    ELSE
    LET kv      == ColIndex(ren, NameV)
        ki      == ColIndex(ren, NameI)
        valid   == DropNa(df.rows, kv, ki)
    IN
    IF valid = <<>> THEN Failure("ValueError", <<>>, id)
    ELSE
    LET sorted  == Permute(valid, p1)
        shifted == ZeroOffset(sorted, kv, ki)
        flipped == Polarity(shifted, kv, ki)
        final   == Permute(flipped, p2)
    IN  [status |-> "ok", found |-> <<>>, v_col |-> id.v, i_col |-> id.i,
         df |-> SetJ(ren, final, ki, ar), kv |-> kv, ki |-> ki,
         sorted |-> sorted, p1 |-> p1,
         idx_zero |-> IdxMinAbs(sorted, kv), shifted |-> shifted,
         max_idx |-> IdxMaxAbs(shifted, ki), flipped |-> flipped, p2 |-> p2]

\* the outcomes preprocess(df, area) can have
PreprocessOutcomes(df, ar) ==
    LET cols == [k \in 1..Len(df.cols) |-> Strip(df.cols[k])]
        id   == IdentifyColumns(cols)
        ren  == RenameColumns(cols, id.v, id.i)
    IN
    IF ~id.ok \/ CountName(ren, NameV) # 1 \/ CountName(ren, NameI) # 1
    THEN {Preprocess(df, ar, <<>>, <<>>)}
    ELSE
    LET kv    == ColIndex(ren, NameV)
        ki    == ColIndex(ren, NameI)
        valid == DropNa(df.rows, kv, ki)
    IN
    IF valid = <<>> THEN {Preprocess(df, ar, <<>>, <<>>)}
    ELSE
    UNION { { Preprocess(df, ar, p1, p2) :
                p2 \in SortingPerms(Polarity(ZeroOffset(Permute(valid, p1), kv, ki), kv, ki), kv) }
            : p1 \in SortingPerms(valid, kv) }

(***************************************************************************)
(* Numbers of the analysis.  A value is NaN, +/-infinity or a fraction n/d  *)
(* with d > 0 in lowest terms.                                             *)
(***************************************************************************)
RECURSIVE Gcd(_, _)
Gcd(a, b) == IF b = 0 THEN Abs(a) ELSE Gcd(b, a % b)

NaN == [k |-> "nan", n |-> 0, d |-> 1]
Inf(sign) == [k |-> "inf", n |-> sign, d |-> 1]

Sign(x) == IF x > 0 THEN 1 ELSE IF x < 0 THEN -1 ELSE 0

Rat(a, b) ==
    LET g == Gcd(Abs(a), Abs(b)) IN
    [k |-> "num", n |-> (Sign(b) * a) \div g, d |-> Abs(b) \div g]

\* IEEE division a / b of two integers
Quot(a, b) ==
    IF b = 0 THEN (IF a = 0 THEN NaN ELSE Inf(Sign(a))) ELSE Rat(a, b)

IsNaN(x) == x.k = "nan"
IsNum(x) == x.k = "num"

\* x < y and x <= y for fractions
RatLt(x, y) == x.n * y.d < y.n * x.d
RatLe(x, y) == x.n * y.d <= y.n * x.d

\* twice np.gradient(f) with unit spacing: one-sided differences at the two
\* ends, central differences inside; f has at least two elements
Gradient2(f) ==
    [a \in 1..Len(f) |->
        IF a = 1 THEN 2 * (f[2] - f[1])
        ELSE IF a = Len(f) THEN 2 * (f[Len(f)] - f[Len(f) - 1])
        ELSE f[a + 1] - f[a - 1]]

\* np.gradient raises ValueError on fewer than edge_order + 1 = 2 elements
GradientRaises(f) == Len(f) < 2

(***************************************************************************)
(* scipy.signal.savgol_filter(x, window_length, polyorder = 3), mode       *)
(* 'interp': the least-squares cubic over the window, evaluated at the     *)
(* window's centre inside the series and at the sample's own place in the  *)
(* first and last window.  SavgolRows(w)[p + 1] is row p of the projection *)
(* on cubics over w points, times SavgolDen(w).                            *)
(***************************************************************************)
SavgolDen(w) ==
    CASE w = 5 -> 70 [] w = 7 -> 42 [] w = 9 -> 1386 [] w = 11 -> 858

SavgolRows(w) ==
    CASE w = 5 ->
        << <<69, 4, -6, 4, -1>>,
           <<4, 54, 24, -16, 4>>,
           <<-6, 24, 34, 24, -6>> >>
    [] w = 7 ->
        << <<39, 8, -4, -4, 1, 4, -2>>,
           <<8, 19, 16, 6, -4, -7, 4>>,
           <<-4, 16, 19, 12, 2, -4, 1>>,
           <<-4, 6, 12, 14, 12, 6, -4>> >>
    [] w = 9 ->
        << <<1190, 392, -28, -168, -126, 0, 112, 112, -98>>,
           <<392, 455, 392, 252, 84, -63, -140, -98, 112>>,
           <<-28, 392, 515, 432, 234, 12, -143, -140, 112>>,
           <<-168, 252, 432, 435, 324, 162, 12, -63, 0>>,
           <<-126, 84, 234, 324, 354, 324, 234, 84, -126>> >>
    [] w = 11 ->
        << <<678, 288, 48, -72, -102, -72, -12, 48, 78, 48, -72>>,
           <<288, 246, 192, 132, 72, 18, -24, -48, -48, -18, 48>>,
           <<48, 192, 246, 232, 172, 88, 2, -64, -88, -48, 78>>,
           <<-72, 132, 232, 251, 212, 138, 52, -23, -64, -48, 48>>,
           <<-102, 72, 172, 212, 206, 168, 112, 52, 2, -24, -12>>,
           <<-72, 18, 88, 138, 168, 178, 168, 138, 88, 18, -72>> >>

\* entry (p, c), both from 0, of the w x w projection
SavgolCoef(w, p, c) ==
    LET h == w \div 2 IN
    IF p <= h THEN SavgolRows(w)[p + 1][c + 1]
    ELSE SavgolRows(w)[w - p][w - c]

RECURSIVE SumTo(_, _)
SumTo(f, m) == IF m = 0 THEN 0 ELSE f[m] + SumTo(f, m - 1)

\* the filtered series times SavgolDen(w); 5 <= w <= Len(x), w odd
SavgolFilter(x, w) ==
    LET n == Len(x)
        h == w \div 2
        start(a) == IF a <= h THEN 0 ELSE IF a > n - h THEN n - w ELSE a - 1 - h
        off(a)   == a - 1 - start(a)
    IN  [a \in 1..n |->
            SumTo([c \in 1..w |-> SavgolCoef(w, off(a), c - 1) * x[start(a) + c]], w)]

\* savgol_filter raises ValueError when polyorder >= window_length
SavgolRaises(w, polyorder) == polyorder >= w

(***************************************************************************)
(* Logarithms.  LnFix(x) is LnScale * ln(x) for an integer x >= 1, in      *)
(* fixed point: Ln2Fix per power of two, linear between powers of two.     *)
(***************************************************************************)
LnScale == 13
Ln2Fix == 9

RECURSIVE FloorLog2(_)
FloorLog2(x) == IF x < 2 THEN 0 ELSE 1 + FloorLog2(x \div 2)

RECURSIVE Pow2(_)
Pow2(e) == IF e = 0 THEN 1 ELSE 2 * Pow2(e - 1)

LnFix(x) ==
    LET e == FloorLog2(x) IN Ln2Fix * e + (Ln2Fix * (x - Pow2(e))) \div Pow2(e)

\* log10 of the fraction a / den for a > 0, in units of 1 / LnScale
\* (1 / ln 10 = 0.434 = 10 / 23)
Log10Fix(a, den) == Rat((LnFix(a) - LnFix(den)) * 10, 23)

(***************************************************************************)
(* DarkIVAnalyzer                                                          *)
(***************************************************************************)
NoResults == [Rsh |-> NaN, Rs |-> NaN, J0 |-> NaN, n |-> NaN, r_squared |-> NaN]

\* DarkIVAnalyzer(df): the V and J channels of df and the NaN results.  den is
\* the denominator of the J_smooth channel: J_smooth[a] stands for Js[a] / den.
NewAnalyzer(V, J) ==
    [V |-> V, J |-> J, cols |-> {}, Js |-> <<>>, den |-> 1,
     logJ |-> <<>>, R_diff |-> <<>>, n_local |-> <<>>,
     results |-> NoResults, exc |-> "none"]

DEFAULT_WINDOW == 11
DEFAULT_POLYORDER == 3

\* a shrink that takes n_samples - 3 for an even sample count
SmoothWindow_Minus3(n_samples, window_length) ==
    IF window_length >= n_samples
    THEN (IF n_samples % 2 = 0 THEN n_samples - 3 ELSE n_samples)
    ELSE window_length

\* the window smooth_data hands to the filter
SmoothWindow(n_samples, window_length) ==
    IF window_length >= n_samples
    THEN (IF n_samples % 2 = 0 THEN n_samples - 1 ELSE n_samples)
    ELSE window_length

\* np.log10(series.abs().replace(0, np.nan))
LogChannel(js, den) ==
    [a \in 1..Len(js) |-> IF Abs(js[a]) = 0 THEN NaN ELSE Log10Fix(Abs(js[a]), den)]

\* the filter failed or was skipped: J_smooth = J, logJ from J
Unsmoothed(an) ==
    [an EXCEPT !.cols = @ \cup {"J_smooth", "logJ"},
               !.Js = an.J, !.den = 1, !.logJ = LogChannel(an.J, 1)]

\* smooth_data(window_length, polyorder)
SmoothData(an, window_length, polyorder) ==
    LET w == SmoothWindow(Len(an.J), window_length) IN
    IF w < 3 THEN Unsmoothed(an)
    ELSE IF SavgolRaises(w, polyorder) THEN Unsmoothed(an)
    ELSE [an EXCEPT !.cols = @ \cup {"J_smooth", "logJ"},
                    !.Js = SavgolFilter(an.J, w), !.den = SavgolDen(w),
                    !.logJ = LogChannel(SavgolFilter(an.J, w), SavgolDen(w))]

\* 1e10 ohm cm^2 in units of 0.025 V / 1e-12 A cm^-2 = 2.5e10 ohm cm^2
RDiffLimit == Rat(2, 5)

\* a filter that only removes the non-finite quotients
RDiffFilter_FiniteOnly(r) == IF IsNum(r) THEN r ELSE NaN

\* np.where(np.isfinite(R), R, nan), then np.where(np.abs(R) < 1e10, R, nan)
RDiffFilter(r) ==
    LET finite == IF IsNum(r) THEN r ELSE NaN IN
    IF IsNum(finite) /\ RatLt(Rat(Abs(finite.n), finite.d), RDiffLimit)
    THEN finite ELSE NaN

\* calculate_differential_resistance()
CalcRdiff(an) ==
    IF "J_smooth" \notin an.cols THEN an
    ELSE IF GradientRaises(an.V) THEN [an EXCEPT !.exc = "ValueError"]
    ELSE LET dV == Gradient2(an.V)
             dJ == Gradient2(an.Js)
         IN  [an EXCEPT !.cols = @ \cup {"R_diff"},
                        !.R_diff = [a \in 1..Len(an.V) |->
                                        RDiffFilter(Quot(dV[a] * an.den, dJ[a]))]]

(***************************************************************************)
(* extract_parameters                                                      *)
(***************************************************************************)
\* config.py, in units of 0.025 V
R_SH_VOLTAGE_RANGE == <<-8, 8>>
\* 0.1 V and 0.05 V
ForwardVMin == 4
FitHalfWindow == 2
\* q * 0.025 V / (k_B * T_STC) = 0.97304 = 36 / 37
QKT_Num == 36
QKT_Den == 37
\* the Rsh reported for a zero slope, 1e9 ohm cm^2 = 1 / 25 of 2.5e10 ohm cm^2
RshOpen == Rat(1, 25)

\* the sums of scipy.stats.linregress(x, y), each times len(x)^2:
\* slope = sxy / sxx, intercept = (sy * sxx - sxy * sx) / (m * sxx)
Regress(x, y) ==
    LET m  == Len(x)
        sx == SumTo(x, m)
        sy == SumTo(y, m)
    IN  [m |-> m, sx |-> sx, sy |-> sy,
         sxx |-> m * SumTo([j \in 1..m |-> x[j] * x[j]], m) - sx * sx,
         sxy |-> m * SumTo([j \in 1..m |-> x[j] * y[j]], m) - sx * sy]

\* linregress raises ValueError when all x values are identical
RegressRaises(x) == \A a, b \in 1..Len(x) : x[a] = x[b]

\* r_value ** 2; linregress sets r = 0 when y is constant
RSquared(x, y) ==
    LET m   == Len(x)
        g   == Regress(x, y)
        syy == m * SumTo([j \in 1..m |-> y[j] * y[j]], m) - g.sy * g.sy
    IN  IF syy = 0 THEN Rat(0, 1) ELSE Rat(g.sxy * g.sxy, g.sxx * syy)

\* a shunt window that leaves out the samples at -0.2 V and 0.2 V
ExtractRsh_OpenWindow(an) ==
    LET idx == Positions([a \in 1..Len(an.V) |->
                   an.V[a] > R_SH_VOLTAGE_RANGE[1] /\ an.V[a] < R_SH_VOLTAGE_RANGE[2]])
        x   == Pick(an.V, idx)
        y   == Pick(an.J, idx)
    IN  IF Len(idx) > 2
        THEN IF RegressRaises(x) THEN [an EXCEPT !.exc = "ValueError"]
             ELSE IF Regress(x, y).sxy # 0
                  THEN [an EXCEPT !.results.Rsh = Quot(Regress(x, y).sxx, Regress(x, y).sxy)]
                  ELSE [an EXCEPT !.results.Rsh = RshOpen]
        ELSE an

\* step 1, Rsh: the analyzer after it
ExtractRsh(an) ==
    LET idx == Positions([a \in 1..Len(an.V) |->
                   an.V[a] >= R_SH_VOLTAGE_RANGE[1] /\ an.V[a] <= R_SH_VOLTAGE_RANGE[2]])
        x   == Pick(an.V, idx)
        y   == Pick(an.J, idx)
    IN  IF Len(idx) > 2
        THEN IF RegressRaises(x) THEN [an EXCEPT !.exc = "ValueError"]
             ELSE IF Regress(x, y).sxy # 0
                  THEN [an EXCEPT !.results.Rsh = Quot(Regress(x, y).sxx, Regress(x, y).sxy)]
                  ELSE [an EXCEPT !.results.Rsh = RshOpen]
        ELSE an

\* the samples of the forward region: V > 0.1 and J_smooth > 0
ForwardIdx(an) ==
    Positions([a \in 1..Len(an.V) |-> an.V[a] > ForwardVMin /\ an.Js[a] > 0])

\* n_local over the forward region: (q / kT) * dV / dlnJ
NLocal(an) ==
    LET idx == ForwardIdx(an)
        dV  == Gradient2(Pick(an.V, idx))
        dL  == Gradient2([j \in 1..Len(idx) |-> LnFix(an.Js[idx[j]])])
    IN  [j \in 1..Len(idx) |-> Quot(QKT_Num * LnScale * dV[j], QKT_Den * dL[j])]

InBand(x) == IsNum(x) /\ RatLt(Rat(1, 2), x) /\ RatLt(x, Rat(5, 1))

\* a working point that is the first sample of the band, whatever its n_local
WorkingPoint_FirstInBand(nl) ==
    CHOOSE j \in 1..Len(nl) :
        /\ InBand(nl[j])
        /\ \A i \in 1..(j - 1) : ~InBand(nl[i])

\* idxmin over the band: the first position of the least n_local in the band
WorkingPoint(nl) ==
    CHOOSE j \in 1..Len(nl) :
        /\ InBand(nl[j])
        /\ \A i \in 1..Len(nl) : InBand(nl[i]) => RatLe(nl[j], nl[i])
        /\ \A i \in 1..(j - 1) : InBand(nl[i]) => RatLt(nl[j], nl[i])

\* an exp(n / d / LnScale) result
Exp(r) == [k |-> "exp", n |-> r.n, d |-> r.d]

\* step 2, n and J0 (and the n_local column); J_smooth is present
ExtractIdeality(an) ==
    LET idx == ForwardIdx(an) IN
    IF Len(idx) > 5
    THEN LET nl   == NLocal(an)
             Vp   == Pick(an.V, idx)
             Lp   == [j \in 1..Len(idx) |-> LnFix(an.Js[idx[j]])]
             an1  == [an EXCEPT !.cols = @ \cup {"n_local"},
                                !.n_local = [a \in 1..Len(an.V) |->
                                    IF \E j \in 1..Len(idx) : idx[j] = a
                                    THEN nl[CHOOSE j \in 1..Len(idx) : idx[j] = a]
                                    ELSE NaN]]
         IN  IF \E j \in 1..Len(nl) : InBand(nl[j])
             THEN LET w   == WorkingPoint(nl)
                      fit == Positions([j \in 1..Len(idx) |->
                                 Vp[j] > Vp[w] - FitHalfWindow /\ Vp[j] < Vp[w] + FitHalfWindow])
                      x   == Pick(Vp, fit)
                      y   == Pick(Lp, fit)
                      g   == Regress(x, y)
                  IN  IF Len(fit) > 2
                      THEN IF RegressRaises(x) THEN [an1 EXCEPT !.exc = "ValueError"]
                           ELSE [an1 EXCEPT
                                   !.results.n = Quot(QKT_Num * LnScale * g.sxx, QKT_Den * g.sxy),
                                   !.results.J0 = Exp(Rat(g.sy * g.sxx - g.sxy * g.sx
                                                            - LnFix(an.den) * g.m * g.sxx,
                                                          g.m * g.sxx)),
                                   !.results.r_squared = RSquared(x, y)]
                      ELSE [an1 EXCEPT
                              !.results.n = nl[w],
                              !.results.J0 = Exp(Rat((Lp[w] - LnFix(an.den)) * QKT_Den * nl[w].n
                                                       - QKT_Num * LnScale * Vp[w] * nl[w].d,
                                                     QKT_Den * nl[w].n))]
             ELSE an1
    ELSE an

\* LnScale * ln(J_max / J0 + 1) for J_max = jm / den > 0 and J0 = exp(j0),
\* rounded down: ln(e^t + 1) is taken as max(0, t, t / 2 + ln 2)
LnTerm(jm, den, j0) ==
    LET tn == (LnFix(jm) - LnFix(den)) * j0.d - j0.n
        t  == tn \div j0.d
        u  == (tn \div (2 * j0.d)) + Ln2Fix
    IN  IF t >= u /\ t >= 0 THEN t ELSE IF u >= 0 THEN u ELSE 0

\* no clamp
ClampRs_None(rs) == rs

\* Python's max(0, Rs)
ClampRs(rs) == IF IsNum(rs) /\ rs.n > 0 THEN rs ELSE IF rs.k = "inf" /\ rs.n > 0 THEN rs ELSE Rat(0, 1)

\* (V_max - V_ideal) / J_max with V_ideal = (n kT / q) ln(term)
RawRs(n, v_max, jm, den, lt) ==
    IF n.k = "inf"
    THEN (IF lt = 0 THEN NaN ELSE Inf(-n.n))
    ELSE LET a  == Rat(n.n, QKT_Num * LnScale)
             b  == Rat(QKT_Den, n.d)
             vi == Rat(a.n * b.n * lt, a.d * b.d)
         IN  Rat((v_max * vi.d - vi.n) * den, vi.d * jm)

\* the first position of the maximum of V
IdxMaxV(V) ==
    CHOOSE a \in 1..Len(V) :
        /\ \A b \in 1..Len(V) : V[a] >= V[b]
        /\ \A b \in 1..(a - 1) : V[b] < V[a]

\* step 3, Rs
ExtractRs(an) ==
    IF ~IsNaN(an.results.n) /\ ~IsNaN(an.results.J0)
    THEN LET m  == IdxMaxV(an.V)
             jm == an.Js[m]
         IN  IF jm > 0
             THEN [an EXCEPT !.results.Rs =
                      ClampRs(RawRs(an.results.n, an.V[m], jm, an.den,
                                    LnTerm(jm, an.den, an.results.J0)))]
             ELSE an
    ELSE an

\* extract_parameters(): the three steps in order; an exception ends it and
\* leaves the results set so far; reading J_smooth raises KeyError when
\* smooth_data has not run
ExtractParameters(an) ==
    LET a1 == ExtractRsh(an) IN
    IF a1.exc # "none" THEN a1
    ELSE IF "J_smooth" \notin a1.cols THEN [a1 EXCEPT !.exc = "KeyError"]
    ELSE LET a2 == ExtractIdeality(a1) IN
         IF a2.exc # "none" THEN a2 ELSE ExtractRs(a2)

(***************************************************************************)
(* Inputs of preprocess                                                    *)
(***************************************************************************)
NotRun == [status |-> "notrun"]

\* voltages (0.025 V): -1, -0.1, 0, 0.1, 0.5 V; currents (pA)
VVals == <<-40, -4, 0, 4, 20>>
IVals == <<-5, 0, 5>>
AreaVals == {0, DEFAULT_AREA}

\* the rows a two-column table is made of: every (V, I) pair, and a row whose
\* voltage does not parse
RowVals ==
    [k \in 1..(Len(VVals) * Len(IVals) + 1) |->
        IF k > Len(VVals) * Len(IVals)
        THEN <<NaNCell, Num(1)>>
        ELSE <<Num(VVals[((k - 1) \div Len(IVals)) + 1]), Num(IVals[((k - 1) % Len(IVals)) + 1])>>]

\* tables up to the order of their rows: the row order reaches the result only
\* through the order of equal voltages, which the sort leaves open anyway
RECURSIVE NonDecSeqs(_, _)
NonDecSeqs(n, K) ==
    IF n = 0 THEN {<<>>}
    ELSE UNION { {Append(s, k) : k \in (IF s = <<>> THEN 1 ELSE s[Len(s)])..K}
                 : s \in NonDecSeqs(n - 1, K) }

RowTables ==
    UNION { { [cols |-> <<NameV, NameI>>, rows |-> [a \in 1..n |-> RowVals[s[a]]]]
              : s \in NonDecSeqs(n, Len(RowVals)) }
            : n \in 0..MaxRows }

\* column names: exact matches, substring matches of one or both lists, no
\* match, and a name that differs from another by white space only
ColNames ==
    { <<"V">>, <<"I">>, <<"J">>, <<"U">>,
      <<"C","u","r","r","e","n","t">>,
      <<"B","i","a","s">>,
      <<"v","o","l","t">>,
      <<"x">>, <<" ","x">>, <<"y">> }

RECURSIVE DistinctSeqs(_, _)
DistinctSeqs(n, S) ==
    IF n = 0 THEN {<<>>}
    ELSE UNION { {Append(s, x) : x \in S \ {s[k] : k \in 1..Len(s)}}
                 : s \in DistinctSeqs(n - 1, S) }

\* two rows; the cell of row a in column c is 3c + a - 5, so that the columns
\* used as V and I can be told from the values
ColTables ==
    UNION { { [cols |-> c, rows |-> [a \in 1..2 |-> [k \in 1..n |-> Num(3 * k + a - 5)]]]
              : c \in DistinctSeqs(n, ColNames) }
            : n \in 1..MaxCols }

InitPre ==
    /\ \/ table \in RowTables /\ area = DEFAULT_AREA
       \/ table \in ColTables /\ area \in AreaVals
    /\ pre1 = NotRun
    /\ pre2 = NotRun
    /\ analyzer = NewAnalyzer(<<>>, <<>>)
    /\ calls = <<>>
    /\ files = <<>>
    /\ pos = 0
    /\ pc = "idle"
    /\ results_list = <<>>
    /\ attempts = <<>>
    /\ errors = <<>>

\* df = DataLoader.preprocess(df, area)
DoPreprocess ==
    /\ pre1.status = "notrun"
    /\ pre1' \in PreprocessOutcomes(table, area)
    /\ UNCHANGED <<table, area, pre2, anVars, mainVars>>

\* preprocess called again on the Curve the first call returned
DoPreprocessAgain ==
    /\ pre1.status = "ok"
    /\ pre2.status = "notrun"
    /\ pre2' \in PreprocessOutcomes(pre1.df, area)
    /\ UNCHANGED <<table, area, pre1, anVars, mainVars>>

NextPre == DoPreprocess \/ DoPreprocessAgain

SpecPre == InitPre /\ [][NextPre]_vars

(***************************************************************************)
(* Inputs of the analyzer: short curves over a small grid, and forward-    *)
(* bias curves of six and seven samples whose current grows by a factor of *)
(* 1, 2 or 4 per sample and ends positive or negative.                     *)
(***************************************************************************)
ShortV == <<0, 1, 10>>
ShortJ == {0, 1, 4}

ShortCurves ==
    UNION { { NewAnalyzer([a \in 1..n |-> ShortV[s[a]]], j)
              : s \in NonDecSeqs(n, Len(ShortV)), j \in [1..n -> ShortJ] }
            : n \in 0..MaxLen }

ForwardV ==
    { <<5, 6, 7, 8, 9, 10, 11>>,
      <<5, 7, 9, 11, 13, 15, 17>>,
      <<5, 6, 6, 6, 7, 8, 10>>,
      <<5, 8, 8, 8, 11, 14, 17>> }

RECURSIVE Growth(_)
Growth(m) ==
    IF m = <<>> THEN <<1>>
    ELSE LET g == Growth(SubSeq(m, 1, Len(m) - 1)) IN Append(g, g[Len(g)] * m[Len(m)])

ForwardCurves ==
    UNION { { NewAnalyzer(SubSeq(v, 1, n),
                          [a \in 1..n |-> IF a = n THEN Growth(m)[a] * t ELSE Growth(m)[a]])
              : v \in ForwardV, m \in [1..(n - 1) -> {1, 2, 4}], t \in {-1, 1} }
            : n \in {6, 7} }

InitAna ==
    /\ table = NoFrame
    /\ area = DEFAULT_AREA
    /\ pre1 = NotRun
    /\ pre2 = NotRun
    /\ analyzer \in ShortCurves \cup ForwardCurves
    /\ calls = <<>>
    /\ files = <<>>
    /\ pos = 0
    /\ pc = "idle"
    /\ results_list = <<>>
    /\ attempts = <<>>
    /\ errors = <<>>

Called(m) == \E k \in 1..Len(calls) : calls[k] = m

\* analyzer.smooth_data()
AnSmooth ==
    /\ analyzer.exc = "none"
    /\ ~Called("smooth_data")
    /\ analyzer' = SmoothData(analyzer, DEFAULT_WINDOW, DEFAULT_POLYORDER)
    /\ calls' = Append(calls, "smooth_data")
    /\ UNCHANGED <<preVars, mainVars>>

\* analyzer.calculate_differential_resistance()
AnRdiff ==
    /\ analyzer.exc = "none"
    /\ ~Called("calculate_differential_resistance")
    /\ analyzer' = CalcRdiff(analyzer)
    /\ calls' = Append(calls, "calculate_differential_resistance")
    /\ UNCHANGED <<preVars, mainVars>>

\* analyzer.extract_parameters()
AnExtract ==
    /\ analyzer.exc = "none"
    /\ ~Called("extract_parameters")
    /\ analyzer' = ExtractParameters(analyzer)
    /\ calls' = Append(calls, "extract_parameters")
    /\ UNCHANGED <<preVars, mainVars>>

\* analyzer.fit_sdm(): smooth_data() and then extract_parameters()
AnFitSdm ==
    /\ analyzer.exc = "none"
    /\ ~Called("smooth_data")
    /\ ~Called("extract_parameters")
    /\ analyzer' = ExtractParameters(SmoothData(analyzer, DEFAULT_WINDOW, DEFAULT_POLYORDER))
    /\ calls' = calls \o <<"smooth_data", "extract_parameters">>
    /\ UNCHANGED <<preVars, mainVars>>

NextAna == AnSmooth \/ AnRdiff \/ AnExtract \/ AnFitSdm

SpecAna == InitAna /\ [][NextAna]_vars

(***************************************************************************)
(* DataLoader.load_data and main                                           *)
(***************************************************************************)
ExtCsv == <<".", "c", "s", "v">>
ExtTxt == <<".", "t", "x", "t">>
ExtXlsx == <<".", "x", "l", "s", "x">>
ExtXls == <<".", "x", "l", "s">>
ExtIv == <<".", "i", "v">>

\* load_data(filepath) of a file [ext, parses, df]: parses says whether the
\* pandas reader chosen by the extension returns df; every exception leaves as
\* an IOError
LoadData(file) ==
    LET ext == Lower(file.ext) IN
    IF ext = ExtCsv \/ ext \in {ExtXlsx, ExtXls} \/ ext \in {ExtTxt, ExtIv}
    THEN (IF file.parses THEN [status |-> "ok", df |-> file.df]
          ELSE [status |-> "IOError", df |-> NoFrame])
    ELSE [status |-> "IOError", df |-> NoFrame]

\* DarkIVAnalyzer(df) on the DataFrame preprocess returned
AnalyzerOf(df) ==
    NewAnalyzer([a \in 1..Len(df.rows) |-> df.rows[a][ColIndex(df.cols, NameV)].val],
                [a \in 1..Len(df.rows) |-> df.rows[a][ColIndex(df.cols, NameJ)].val])

ViTable(v, i) ==
    [cols |-> <<NameV, NameI>>, rows |-> [a \in 1..Len(v) |-> <<Num(v[a]), Num(i[a])>>]]

\* the files of the data directory (glob of *.csv, *.txt, *.xlsx, *.iv): a
\* forward curve, a table that does not parse, one without recognisable
\* columns, curves of one and two samples, three samples at V = 0, and a table
\* without a numeric row
FileKinds ==
    { [ext |-> ExtCsv, parses |-> TRUE,
       df |-> ViTable(<<0, 5, 6, 7, 8, 9, 10>>, <<0, 1, 2, 4, 8, 16, 32>>)],
      [ext |-> ExtTxt, parses |-> FALSE, df |-> NoFrame],
      [ext |-> ExtCsv, parses |-> TRUE,
       df |-> [cols |-> << <<"x">>, <<"y">>, <<"t">> >>,
               rows |-> << <<Num(0), Num(0), Num(0)>> >>]],
      [ext |-> ExtIv, parses |-> TRUE, df |-> ViTable(<<4>>, <<3>>)],
      [ext |-> ExtTxt, parses |-> TRUE, df |-> ViTable(<<0, 4>>, <<0, 3>>)],
      [ext |-> ExtCsv, parses |-> TRUE, df |-> ViTable(<<0, 0, 0>>, <<0, 3, 5>>)],
      [ext |-> ExtXlsx, parses |-> TRUE,
       df |-> [cols |-> <<NameV, NameI>>, rows |-> << <<NaNCell, Num(1)>> >>]] }

Init ==
    /\ table = NoFrame
    /\ area = DEFAULT_AREA
    /\ pre1 = NotRun
    /\ pre2 = NotRun
    /\ analyzer = NewAnalyzer(<<>>, <<>>)
    /\ calls = <<>>
    /\ files \in UNION {[1..n -> FileKinds] : n \in 0..MaxFiles}
    /\ pos = 0
    /\ pc = "for"
    /\ results_list = <<>>
    /\ attempts = <<>>
    /\ errors = <<>>

\* for filepath in files:
MainFor ==
    /\ pc = "for"
    /\ IF pos < Len(files)
       THEN /\ pos' = pos + 1
            /\ attempts' = Append(attempts, pos + 1)
            /\ pc' = "load"
       ELSE /\ pc' = "finalize"
            /\ UNCHANGED <<pos, attempts>>
    /\ UNCHANGED <<preVars, anVars, files, results_list, errors>>

\* df = DataLoader.load_data(filepath)
MainLoad ==
    /\ pc = "load"
    /\ LET r == LoadData(files[pos]) IN
       IF r.status = "ok"
       THEN table' = r.df /\ pc' = "preprocess"
       ELSE table' = table /\ pc' = "except"
    /\ UNCHANGED <<area, pre1, pre2, anVars, files, pos, results_list, attempts, errors>>

\* df = DataLoader.preprocess(df, area=DEFAULT_AREA)
MainPreprocess ==
    /\ pc = "preprocess"
    /\ pre1' \in PreprocessOutcomes(table, DEFAULT_AREA)
    /\ pc' = IF pre1'.status = "ok" THEN "smooth" ELSE "except"
    /\ UNCHANGED <<table, area, pre2, anVars, files, pos, results_list, attempts, errors>>

\* analyzer = DarkIVAnalyzer(df) without the call of smooth_data
MainSmooth_Skipped ==
    /\ pc = "smooth"
    /\ analyzer' = AnalyzerOf(pre1.df)
    /\ calls' = <<>>
    /\ pc' = "rdiff"
    /\ UNCHANGED <<preVars, files, pos, results_list, attempts, errors>>

\* analyzer = DarkIVAnalyzer(df); analyzer.smooth_data()
MainSmooth ==
    /\ pc = "smooth"
    /\ analyzer' = SmoothData(AnalyzerOf(pre1.df), DEFAULT_WINDOW, DEFAULT_POLYORDER)
    /\ calls' = <<"smooth_data">>
    /\ pc' = "rdiff"
    /\ UNCHANGED <<preVars, files, pos, results_list, attempts, errors>>

\* analyzer.calculate_differential_resistance()
MainRdiff ==
    /\ pc = "rdiff"
    /\ analyzer' = CalcRdiff(analyzer)
    /\ calls' = Append(calls, "calculate_differential_resistance")
    /\ pc' = IF analyzer'.exc = "none" THEN "extract" ELSE "except"
    /\ UNCHANGED <<preVars, files, pos, results_list, attempts, errors>>

\* params = analyzer.extract_parameters()
MainExtract ==
    /\ pc = "extract"
    /\ analyzer' = ExtractParameters(analyzer)
    /\ calls' = Append(calls, "extract_parameters")
    /\ pc' = IF analyzer'.exc = "none" THEN "append" ELSE "except"
    /\ UNCHANGED <<preVars, files, pos, results_list, attempts, errors>>

\* params['filename'] = filename; results_list.append(params)
MainAppend ==
    /\ pc = "append"
    /\ results_list' = Append(results_list, [file |-> pos, params |-> analyzer.results])
    /\ pc' = "report"
    /\ UNCHANGED <<preVars, anVars, files, pos, attempts, errors>>

\* the plots and the Word and PowerPoint sections of the file: the
\* collaborators return or raise
MainReport ==
    /\ pc = "report"
    /\ \/ pc' = "for"
       \/ pc' = "except"
    /\ UNCHANGED <<preVars, anVars, files, pos, results_list, attempts, errors>>

\* an except clause that lets the exception out of main
MainExcept_Propagate ==
    /\ pc = "except"
    /\ errors' = Append(errors, pos)
    /\ pc' = "failed"
    /\ UNCHANGED <<preVars, anVars, files, pos, results_list, attempts>>

\* except Exception as e: print, traceback
MainExcept ==
    /\ pc = "except"
    /\ errors' = Append(errors, pos)
    /\ pc' = "for"
    /\ UNCHANGED <<preVars, anVars, files, pos, results_list, attempts>>

\* 5. Finalize Reports: the summary reports are written when there are
\* results (the writers return or raise)
MainFinalize ==
    /\ pc = "finalize"
    /\ \/ pc' = "done"
       \/ results_list # <<>> /\ pc' = "failed"
    /\ UNCHANGED <<preVars, anVars, files, pos, results_list, attempts, errors>>

Next ==
    \/ MainFor \/ MainLoad \/ MainPreprocess \/ MainSmooth \/ MainRdiff
    \/ MainExtract \/ MainAppend \/ MainReport \/ MainExcept \/ MainFinalize

Spec == Init /\ [][Next]_vars

Statements ==
    {"for", "load", "preprocess", "smooth", "rdiff", "extract", "append", "report",
     "except", "finalize", "done", "failed"}

\* main goes on to another statement: every step of Next is such a step, and
\* one is possible until main has returned ("done") or an exception has left
\* it ("failed")
Step == pc \notin {"done", "failed"} /\ pc' \in Statements

\* the interpreter runs the statement main is at
FairSpec == Spec /\ WF_pc(Step)

(***************************************************************************)
(* Properties of preprocess                                                *)
(***************************************************************************)
ColV(df) == ColIndex(df.cols, NameV)
ColI(df) == ColIndex(df.cols, NameI)
ColJ(df) == ColIndex(df.cols, NameJ)

VNonDecreasing(df) ==
    \A a \in 1..(Len(df.rows) - 1) :
        df.rows[a][ColV(df)].val <= df.rows[a + 1][ColV(df)].val

IsMaxAbsJ(df, a) ==
    \A b \in 1..Len(df.rows) :
        Abs(df.rows[a][ColJ(df)].val) >= Abs(df.rows[b][ColJ(df)].val)

FirstQuadrant(df, a) ==
    df.rows[a][ColV(df)].val > 0 /\ df.rows[a][ColJ(df)].val > 0

\* the sample the polarity step selected has V # 0 and I # 0
SelectedOffAxes(o) ==
    /\ o.shifted[o.max_idx][o.kv].val # 0
    /\ o.shifted[o.max_idx][o.ki].val # 0

\* C1 as stated: on return V is non-decreasing and the first sample of maximum
\* |J| in output order has V > 0 and J > 0.
C1_Original ==
    pre1.status = "ok" =>
        /\ VNonDecreasing(pre1.df)
        /\ FirstQuadrant(pre1.df, IdxMaxAbs(pre1.df.rows, ColJ(pre1.df)))

\* C1 amended: on return V is non-decreasing, and when the maximum-|I| sample
\* the polarity step selected has V # 0 and I # 0, that sample is returned in
\* the first quadrant and is a sample of maximum |J|.
C1_Quadrant ==
    pre1.status = "ok" =>
        /\ VNonDecreasing(pre1.df)
        /\ SelectedOffAxes(pre1) =>
              \E a \in 1..Len(pre1.df.rows) :
                  /\ pre1.p2[a] = pre1.max_idx
                  /\ IsMaxAbsJ(pre1.df, a)
                  /\ FirstQuadrant(pre1.df, a)

\* a run that negated V (the selected sample was in the second quadrant) and
\* returned more than one sample
C1_Witness ==
    /\ pre1.status = "ok"
    /\ Len(pre1.df.rows) > 1
    /\ SelectedOffAxes(pre1)
    /\ pre1.shifted[pre1.max_idx][pre1.kv].val < 0
    /\ pre1.shifted[pre1.max_idx][pre1.ki].val > 0

VISamples(df) ==
    [a \in 1..Len(df.rows) |-> <<df.rows[a][ColV(df)].val, df.rows[a][ColI(df)].val>>]

\* C2 as stated: preprocess called on the Curve it returned succeeds and
\* returns the same sequence of (V, I) samples.
C2_Idempotent ==
    pre2.status # "notrun" =>
        /\ pre2.status = "ok"
        /\ VISamples(pre2.df) = VISamples(pre1.df)

\* C3: with s the first sample of minimum |V| after sorting, if |V(s)| < 0.5 V
\* the I of s is subtracted from every I and the returned I of s is 0;
\* otherwise the step changes no I.
C3_ZeroOffset ==
    pre1.status = "ok" =>
        LET s == pre1.idx_zero IN
        IF Abs(pre1.sorted[s][pre1.kv].val) < ZeroOffsetWindow
        THEN /\ \A a \in 1..Len(pre1.sorted) :
                    pre1.shifted[a][pre1.ki].val =
                        pre1.sorted[a][pre1.ki].val - pre1.sorted[s][pre1.ki].val
             /\ \A a \in 1..Len(pre1.df.rows) :
                    pre1.p2[a] = s => pre1.df.rows[a][ColI(pre1.df)].val = 0
        ELSE pre1.shifted = pre1.sorted

\* a run that subtracted a nonzero offset taken from a row other than the
\* first, and then negated I
C3_Witness ==
    /\ pre1.status = "ok"
    /\ pre1.idx_zero > 1
    /\ Abs(pre1.sorted[pre1.idx_zero][pre1.kv].val) < ZeroOffsetWindow
    /\ pre1.sorted[pre1.idx_zero][pre1.ki].val # 0
    /\ pre1.shifted[pre1.max_idx][pre1.ki].val < 0
    /\ pre1.shifted[pre1.max_idx][pre1.kv].val > 0

StrippedCols == [k \in 1..Len(table.cols) |-> Strip(table.cols[k])]

NoNameMatches ==
    \A k \in 1..Len(table.cols) :
        /\ ~ExactMatch(StrippedCols[k], VOLTAGE_COLUMN_NAMES)
        /\ ~PartialMatch(StrippedCols[k], VOLTAGE_COLUMN_NAMES)
        /\ ~ExactMatch(StrippedCols[k], CURRENT_COLUMN_NAMES)
        /\ ~PartialMatch(StrippedCols[k], CURRENT_COLUMN_NAMES)

\* C9 as stated: when no column name matches a candidate, a two-column table
\* has column 0 taken as V and column 1 as I, and any other table fails with
\* an error listing the columns found and returns no Curve.
C9_Fallback ==
    (pre1.status # "notrun" /\ NoNameMatches /\ \A a \in 1..Len(table.rows) :
                                  \A k \in 1..Len(table.cols) : table.rows[a][k].ok) =>
        IF Len(table.cols) = 2
        THEN pre1.status = "ok" /\ pre1.kv = 1 /\ pre1.ki = 2
        ELSE pre1.status = "ValueError" /\ pre1.found = StrippedCols /\ pre1.df = NoFrame

(***************************************************************************)
(* Properties of the analyzer                                              *)
(***************************************************************************)
CallIndex(m) == CHOOSE k \in 1..Len(calls) : calls[k] = m

CalledBefore(m1, m2) == Called(m1) /\ Called(m2) /\ CallIndex(m1) < CallIndex(m2)

NSamples == Len(analyzer.V)

\* extract_parameters was called on a smoothed Curve
ExtractedSmoothed == CalledBefore("smooth_data", "extract_parameters")

\* C4 as stated: on every smoothed Curve extract_parameters returns without
\* raising.
C4_NoRaise ==
    (ExtractedSmoothed /\ calls[Len(calls)] = "extract_parameters") => analyzer.exc = "none"

MainOrder == <<"smooth_data", "calculate_differential_resistance", "extract_parameters">>

\* C5 as stated: on a Curve of 0, 1 or 2 samples smooth_data, then
\* calculate_differential_resistance, then extract_parameters complete without
\* raising and every result is NaN.
C5_FewSamples ==
    (NSamples <= 2 /\ calls = SubSeq(MainOrder, 1, Len(calls))) =>
        /\ analyzer.exc = "none"
        /\ analyzer.results = NoResults

\* the quotient dV / dJ_smooth at sample a, before the filter
RawRdiff(a) ==
    Quot(Gradient2(analyzer.V)[a] * analyzer.den, Gradient2(analyzer.Js)[a])

\* C7: after calculate_differential_resistance on a Curve with J_smooth every
\* R_diff is NaN or a finite value of magnitude < 1e10, and the quotients that
\* are infinite, 0/0 or of magnitude >= 1e10 are NaN; without J_smooth the call
\* adds no column and changes nothing.
C7_RdiffFiltered ==
    /\ (CalledBefore("smooth_data", "calculate_differential_resistance")
            /\ analyzer.exc = "none") =>
          /\ "R_diff" \in analyzer.cols
          /\ Len(analyzer.R_diff) = NSamples
          /\ \A a \in 1..NSamples :
                LET r == analyzer.R_diff[a] IN
                /\ IsNaN(r) \/ (IsNum(r) /\ RatLt(Rat(Abs(r.n), r.d), RDiffLimit))
                /\ (~IsNum(RawRdiff(a))
                      \/ ~RatLt(Rat(Abs(RawRdiff(a).n), RawRdiff(a).d), RDiffLimit)) => IsNaN(r)
    /\ calls = <<"calculate_differential_resistance">> =>
          analyzer = NewAnalyzer(analyzer.V, analyzer.J)

\* a Curve whose R_diff has a NaN from an infinite quotient, a NaN from a
\* finite quotient of magnitude >= 1e10, and a value that was kept
C7_Witness ==
    /\ CalledBefore("smooth_data", "calculate_differential_resistance")
    /\ analyzer.exc = "none"
    /\ \E a, b, c \in 1..NSamples :
          /\ RawRdiff(a).k = "inf"
          /\ IsNum(RawRdiff(b)) /\ IsNaN(analyzer.R_diff[b])
          /\ IsNum(analyzer.R_diff[c])

LargestOddUpTo(n) == CHOOSE w \in (n - 1)..n : w % 2 = 1

\* C8: smooth_data does not raise and leaves J_smooth and logJ; below the
\* default window the window is the largest odd size <= n; when that is < 3,
\* or the filter fails (window 3 with polynomial order 3), J_smooth is J.
C8_SmoothFallback ==
    Called("smooth_data") =>
        /\ calls = <<"smooth_data">> => analyzer.exc = "none"
        /\ {"J_smooth", "logJ"} \subseteq analyzer.cols
        /\ Len(analyzer.Js) = NSamples /\ Len(analyzer.logJ) = NSamples
        /\ NSamples < 5 => (analyzer.Js = analyzer.J /\ analyzer.den = 1)
        /\ (NSamples >= 5 /\ NSamples < DEFAULT_WINDOW) =>
              /\ analyzer.den = SavgolDen(LargestOddUpTo(NSamples))
              /\ analyzer.Js = SavgolFilter(analyzer.J, LargestOddUpTo(NSamples))

\* smooth_data has run on a Curve of 3 samples (the filter fails) and on one
\* of 6 samples (window shrunk to 5)
C8_Witness ==
    /\ Called("smooth_data")
    /\ NSamples = 6
    /\ analyzer.den = SavgolDen(5)
    /\ analyzer.Js # [a \in 1..NSamples |-> analyzer.den * analyzer.J[a]]

RsNonNegative(rs) == (IsNum(rs) /\ rs.n >= 0) \/ (rs.k = "inf" /\ rs.n > 0)

\* C10: Rs is defined only if n and J0 are defined and J_smooth at the first
\* sample of maximum V is > 0, and a defined Rs is >= 0.
C10_SeriesResistance ==
    ~IsNaN(analyzer.results.Rs) =>
        /\ ~IsNaN(analyzer.results.n)
        /\ ~IsNaN(analyzer.results.J0)
        /\ analyzer.Js[IdxMaxV(analyzer.V)] > 0
        /\ RsNonNegative(analyzer.results.Rs)

\* a run in which the raw Rs was negative and 0 is reported
C10_Witness ==
    /\ Called("extract_parameters")
    /\ analyzer.results.Rs = Rat(0, 1)
    /\ analyzer.results.n.k = "num"
    /\ LET m == IdxMaxV(analyzer.V) IN
       RawRs(analyzer.results.n, analyzer.V[m], analyzer.Js[m], analyzer.den,
             LnTerm(analyzer.Js[m], analyzer.den, analyzer.results.J0)).n < 0

(***************************************************************************)
(* Properties of main                                                      *)
(***************************************************************************)
IsPrefix(a, b) == Len(a) <= Len(b) /\ a = SubSeq(b, 1, Len(a))

\* loading and preprocessing of the file succeed
LoadsAndPreprocesses(file) ==
    /\ LoadData(file).status = "ok"
    /\ \A o \in PreprocessOutcomes(file.df, DEFAULT_AREA) : o.status = "ok"

C6_State ==
    /\ attempts = [k \in 1..pos |-> k]
    /\ pc \in {"finalize", "done"} => pos = Len(files)
    /\ \A k \in 1..Len(results_list) : LoadsAndPreprocesses(files[results_list[k].file])
    /\ \A k, l \in 1..Len(results_list) : k < l => results_list[k].file < results_list[l].file

\* C6: every file is attempted once, in list order; the run reaches the
\* finalisation of the reports whatever files failed; a file whose loading or
\* preprocessing fails has no record; records once appended stay as they are.
C6_RunCompletes ==
    /\ []C6_State
    /\ [][IsPrefix(results_list, results_list')]_vars
    /\ <>(pc = "finalize" /\ attempts = [k \in 1..Len(files) |-> k])

\* the finalisation is reached after a file failed and a later file gave a
\* record
C6_Witness ==
    /\ pc = "finalize"
    /\ \E e \in 1..Len(errors) : \E k \in 1..Len(results_list) :
          errors[e] < results_list[k].file

(***************************************************************************)
(* Properties of extract_parameters                                        *)
(***************************************************************************)
\* the samples with -0.2 V <= V <= 0.2 V
ShuntWindow ==
    {a \in 1..NSamples : analyzer.V[a] >= -8 /\ analyzer.V[a] <= 8}

ShuntDistinctV == \E a, b \in ShuntWindow : analyzer.V[a] # analyzer.V[b]

\* the least-squares slope of J on V over the window is PairSxy / PairSxx
PairSxx ==
    LET w == ShuntWindow
        sq(a, b) == (analyzer.V[a] - analyzer.V[b]) * (analyzer.V[a] - analyzer.V[b])
    IN  SumTo([a \in 1..NSamples |->
                  IF a \in w
                  THEN SumTo([b \in 1..NSamples |->
                                 IF b \in w /\ a < b THEN sq(a, b) ELSE 0], NSamples)
                  ELSE 0], NSamples)

PairSxy ==
    LET w == ShuntWindow
        xy(a, b) == (analyzer.V[a] - analyzer.V[b]) * (analyzer.J[a] - analyzer.J[b])
    IN  SumTo([a \in 1..NSamples |->
                  IF a \in w
                  THEN SumTo([b \in 1..NSamples |->
                                 IF b \in w /\ a < b THEN xy(a, b) ELSE 0], NSamples)
                  ELSE 0], NSamples)

\* the value of Rsh the claim gives for a window of 3 or more samples
ShuntValue == IF PairSxy # 0 THEN Rat(PairSxx, PairSxy) ELSE Rat(1, 25)

\* J = G * V on every sample of the window
LinearShunt(G) == \A a \in ShuntWindow : analyzer.J[a] = G * analyzer.V[a]

ForwardSamples ==
    {a \in 1..NSamples : analyzer.V[a] > 4 /\ analyzer.Js[a] > 0}

\* n_local at sample a, NaN where the column has no value
NLocalAt(a) ==
    IF "n_local" \in analyzer.cols THEN analyzer.n_local[a] ELSE NaN

\* the samples of P whose n_local lies strictly inside (0.5, 5)
BandSamples ==
    {a \in ForwardSamples :
        IsNum(NLocalAt(a)) /\ RatLt(Rat(1, 2), NLocalAt(a)) /\ RatLt(NLocalAt(a), Rat(5, 1))}

IdealityCondition == Cardinality(ForwardSamples) > 5 /\ BandSamples # {}

\* the sample of minimum n_local within the band, the first one on ties
BandMinimum ==
    LET band == BandSamples
    IN  CHOOSE a \in band :
            \A b \in band :
                \/ RatLt(NLocalAt(a), NLocalAt(b))
                \/ (NLocalAt(a) = NLocalAt(b) /\ a <= b)

\* the samples of P strictly within 0.05 V of the working point
FitSamples ==
    LET vm == analyzer.V[BandMinimum]
    IN  {b \in ForwardSamples : analyzer.V[b] > vm - 2 /\ analyzer.V[b] < vm + 2}

IdealityAsClaimed ==
    /\ (~IsNaN(analyzer.results.n) /\ ~IsNaN(analyzer.results.J0)) <=> IdealityCondition
    /\ IsNaN(analyzer.results.n) <=> IsNaN(analyzer.results.J0)
    /\ ~IsNaN(analyzer.results.r_squared) <=>
          (IdealityCondition /\ Cardinality(FitSamples) > 2)
    /\ (IdealityCondition /\ Cardinality(FitSamples) <= 2) =>
          analyzer.results.n = NLocalAt(BandMinimum)

AnalyzerOfThisFile ==
    /\ LoadData(files[pos]).status = "ok"
    /\ table = files[pos].df
    /\ pre1 \in PreprocessOutcomes(table, DEFAULT_AREA)
    /\ pre1.status = "ok"
    /\ analyzer.V = AnalyzerOf(pre1.df).V
    /\ analyzer.J = AnalyzerOf(pre1.df).J

StagesInOrder ==
    /\ pc = "smooth" => (pre1.status = "ok" /\ table = files[pos].df)
    /\ pc = "rdiff" =>
          /\ AnalyzerOfThisFile
          /\ calls = <<"smooth_data">>
          /\ "J_smooth" \in analyzer.cols
    /\ pc = "extract" =>
          /\ AnalyzerOfThisFile
          /\ calls = <<"smooth_data", "calculate_differential_resistance">>
          /\ "J_smooth" \in analyzer.cols
    /\ pc = "append" =>
          /\ AnalyzerOfThisFile
          /\ calls = MainOrder
          /\ analyzer.exc = "none"

AppendsAfterStages ==
    results_list' # results_list =>
        /\ pc = "append"
        /\ calls = MainOrder
        /\ results_list' = Append(results_list, [file |-> pos, params |-> analyzer.results])

StartsInOrder ==
    /\ pc' = "smooth" => pc = "preprocess"
    /\ pc' = "rdiff" => pc = "smooth"
    /\ pc' = "extract" => pc = "rdiff"
    /\ pc' = "append" => pc = "extract"

\* C13: for each file of main, smoothing starts after preprocessing has
\* returned, the differential resistance and the extraction start after
\* smoothing has returned and so run on a Curve with J_smooth, and the record
\* is appended after all of them have returned for that file.
C13_StageOrder ==
    /\ []StagesInOrder
    /\ [][StartsInOrder /\ AppendsAfterStages]_vars

\* the record of the second file has been appended after its three stages
C13_Witness ==
    /\ pc = "report"
    /\ pos = 2
    /\ calls = MainOrder
    /\ results_list # <<>>
    /\ results_list[Len(results_list)] = [file |-> pos, params |-> analyzer.results]

(***************************************************************************)
(* The logJ channel                                                        *)
(***************************************************************************)
\* C14 as stated: after smooth_data, logJ is NaN at every sample with
\* J_smooth <= 0 and is log10(J_smooth) at every sample with J_smooth > 0.
C14_LogJ ==
    Called("smooth_data") =>
        \A a \in 1..NSamples :
            IF analyzer.Js[a] <= 0
            THEN IsNaN(analyzer.logJ[a])
            ELSE analyzer.logJ[a] = Log10Fix(analyzer.Js[a], analyzer.den)

(***************************************************************************)
(* The columns preprocess chooses                                          *)
(***************************************************************************)
\* preprocess ran and did not raise the identification error of line 68
Identified == pre1.status # "notrun" /\ pre1.found = <<>>

\* C15 as stated: when the identification does not raise its error, the
\* column chosen as voltage and the column chosen as current are different
\* columns, and the renamed table has a V and an I channel.
C15_DistinctColumns ==
    Identified =>
        /\ pre1.v_col # pre1.i_col
        /\ pre1.status \notin {"KeyError", "TypeError"}

\* some column name is, case aside, a voltage candidate
HasExactVoltageName ==
    \E k \in 1..Len(table.cols) : ExactMatch(StrippedCols[k], VOLTAGE_COLUMN_NAMES)

\* C16 as stated: when some column name exactly matches a voltage candidate,
\* the column used as V is one whose name exactly matches a voltage candidate,
\* and no column whose name exactly matches a voltage candidate is used as I.
C16_NameMatchHonoured ==
    (pre1.status = "ok" /\ HasExactVoltageName) =>
        /\ ExactMatch(pre1.v_col, VOLTAGE_COLUMN_NAMES)
        /\ ExactMatch(StrippedCols[pre1.kv], VOLTAGE_COLUMN_NAMES)
        /\ ~ExactMatch(pre1.i_col, VOLTAGE_COLUMN_NAMES)
        /\ ~ExactMatch(StrippedCols[pre1.ki], VOLTAGE_COLUMN_NAMES)

====
